---- MODULE Spec2Model ----
(***************************************************************************)
(* Training-loop bookkeeping of the span-rep experiment scripts:           *)
(*   - tasks/constclass/ablation_avgl.py: LearningRateController, the      *)
(*     training loop with validation, best-model tracking, learning-rate   *)
(*     decay, early termination, checkpoint save / resume and the          *)
(*     time-limit exit;                                                    *)
(*   - tasks/coref/train.py: train, save_model, main's resume, final_eval. *)
(* Model weights are abstracted to a version number: the number of         *)
(* optimizer steps applied to the initial weights.  Validation scores are  *)
(* inputs, drawn from a small set of levels.                               *)
(***************************************************************************)
EXTENDS Integers, Sequences, FiniteSets, TLC

VARIABLES
    \* ---- constclass: command-line arguments and data
    epochs,          \* args.epochs
    nbatches,        \* len(data_loader['train'])
    eval_step,       \* args.eval_step
    \* ---- constclass: process state
    pc,              \* "loop" | "test" | "done" | "timeup" | "assertfail" | "idle"
    epoch,           \* loop variable of `for epoch in range(args.epochs)`
    step,            \* loop variable of `for step, ... in enumerate(...)`
    start_epoch,     \* args.start_epoch
    epoch_step,      \* args.epoch_step
    terminate,       \* terminate flag
    model,           \* live model weights (version)
    lr,              \* optimizer.param_groups[0]['lr']
    best_acc,
    best_model,      \* None, a reference to the live tensors, or loaded tensors
    lr_controller,   \* LearningRateController object
    not_improved_epoch, \* value returned by the last add_value call
    ckpt,            \* the .ckpt file: <<>> when absent, <<record>> otherwise
    tested,          \* weights the test evaluation ran with (-1: none yet)
    \* ---- constclass: history
    run,             \* number of the current process run (1 = first start)
    runStart,        \* Len(optimized) when the current run started
    optimized,       \* every batch <<epoch, step>> an optimizer step was done on
    evaluated,       \* actual_step of every validation
    bestSeen,        \* <<>> or <<[acc, w]>>: earliest evaluation with the highest accuracy
    optSinceCkpt,    \* optimizer steps since the checkpoint file was last written
    added,           \* values passed to add_value (controller-only specification)
    \* ---- coref
    c_pc,            \* "while" | "for" | "returned" | "done" | "idle"
    train_len,       \* len(train_iter): batches per epoch
    num_steps,
    init_steps,
    steps_done,
    idx,             \* loop variable of `for idx, batch_data in enumerate(train_iter)`
    max_f1,
    ckpt_model,      \* model_dir/model.pt: <<>> or <<record>>
    ckpt_best,       \* best_model_dir/model.pt: <<>> or <<record>>
    c_run,           \* number of the current process run
    evalLog,         \* evaluations of the current train call: <<[steps_done, f1]>>
    lastEval,        \* steps_done of the last evaluation completed by any run (0: none)
    highestF1,       \* highest validation F1 observed by any run (0: none)
    bestWritten,     \* best_model_dir/model.pt was written by the current train call
    logged_f1        \* "Val F1" logged by final_eval (-1: nothing logged)

ccvars == <<epochs, nbatches, eval_step, pc, epoch, step, start_epoch, epoch_step,
            terminate, model, lr, best_acc, best_model, lr_controller,
            not_improved_epoch, ckpt, tested, run, runStart, optimized, evaluated,
            bestSeen, optSinceCkpt>>
corefvars == <<c_pc, train_len, num_steps, init_steps, steps_done, idx, max_f1,
               ckpt_model, ckpt_best, c_run, evalLog, lastEval, highestF1, bestWritten,
               logged_f1>>
vars == <<ccvars, added, corefvars>>

----------------------------------------------------------------------------
\* Bounds of the model
MaxEpochs == 3
MaxBatches == 7
MaxEvalStep == 2
MaxAcc == 2
MaxRuns == 2
MaxAdds == 4
LrBits == 10
MaxTrainLen == 3
MaxKiloSteps == 2
MaxExtraSteps == 1
MaxF1 == 2
MaxCorefRuns == 2

\* Validation accuracy levels: 0 is accuracy 0.0, MaxAcc is accuracy 1.0
AccLevels == 0..MaxAcc

\* args.learning_rate, in units of learning_rate / 2^LrBits
InitLr == 2 ^ LrBits

----------------------------------------------------------------------------
\* LearningRateController

weight_decay_range == 5
terminate_range == 20
\* self.best_performance = -1e10, below every value; kept within the integer
\* range of the model checker (only its order against the values is read)
InitBestPerformance == -1000000000

\* LearningRateController.__init__; self.data is kept as its length
NewController == [len_data |-> 0, not_improved |-> 0,
                  best_performance |-> InitBestPerformance]

\* faulty variant: a value equal to the best counts as an improvement
AddValueGeq(c, val) ==
    IF c.len_data = 0 \/ val >= c.best_performance
    THEN [len_data |-> c.len_data + 1, not_improved |-> 0, best_performance |-> val]
    ELSE [len_data |-> c.len_data + 1, not_improved |-> c.not_improved + 1,
          best_performance |-> c.best_performance]

\* LearningRateController.add_value: the controller after the call; the call
\* returns the new not_improved
AddValue(c, val) ==
    IF c.len_data = 0 \/ val > c.best_performance
    THEN [len_data |-> c.len_data + 1, not_improved |-> 0, best_performance |-> val]
    ELSE [len_data |-> c.len_data + 1, not_improved |-> c.not_improved + 1,
          best_performance |-> c.best_performance]

----------------------------------------------------------------------------
\* constclass: helpers

\* best_model values.  model.state_dict() returns tensors that share storage
\* with the live parameters, so the recorded best model is a reference ("live")
\* until it is reloaded from a checkpoint file ("copy").
None == [kind |-> "none", w |-> -1]
Live == [kind |-> "live", w |-> -1]
Copy(w) == [kind |-> "copy", w |-> w]

\* the weights a best_model value holds, given the live weights
Weights(bm, live) == IF bm.kind = "live" THEN live ELSE bm.w

\* faulty variant: the batch the checkpoint was written at is optimized again
SkipBatchStrict(e, s) == (e < start_epoch) \/ (e = start_epoch /\ s < epoch_step)

\* the condition under which a batch is skipped on resume
SkipBatch(e, s) == (e < start_epoch) \/ (e = start_epoch /\ s <= epoch_step)

ActualStep(e, s) == nbatches * e + s + 1

\* faulty variant: the learning rate is halved at every multiple, also when terminating
NextLrAlways(n, l) == IF n # 0 /\ n % weight_decay_range = 0 THEN l \div 2 ELSE l

\* the learning rate after an evaluation whose add_value returned n
NextLr(n, l) ==
    IF n = 0 THEN l
    ELSE IF n >= terminate_range THEN l
    ELSE IF n % weight_decay_range = 0 THEN l \div 2
    ELSE l

\* the terminate flag after an evaluation whose add_value returned n
NextTerminate(n, t) ==
    IF n = 0 THEN t
    ELSE IF n >= terminate_range THEN TRUE
    ELSE t

\* the record torch.save writes: tensors are serialized by value
Checkpoint(m, bm, ba, l, e, s, c) ==
    [model |-> m, best_model |-> Weights(bm, m), best_acc |-> ba, lr |-> l,
     epoch |-> e, step |-> s, lr_controller |-> c]

\* faulty variant: the time limit is checked after every optimizer step
TimeCheckedEveryStep(isEval) == TRUE

\* whether the time-limit check is reached in an iteration
TimeChecked(isEval) == isEval

\* history: the earliest evaluation with the highest accuracy so far
NoteEval(bs, acc, w) ==
    IF bs = <<>> \/ acc > bs[1].acc THEN <<[acc |-> acc, w |-> w]>> ELSE bs

----------------------------------------------------------------------------
\* constclass: the script

CorefIdle ==
    /\ c_pc = "idle" /\ train_len = 0 /\ num_steps = 0 /\ init_steps = 0
    /\ steps_done = 0 /\ idx = 0 /\ max_f1 = 0 /\ ckpt_model = <<>>
    /\ ckpt_best = <<>> /\ c_run = 0 /\ evalLog = <<>> /\ lastEval = 0
    /\ highestF1 = 0 /\ bestWritten = FALSE /\ logged_f1 = -1

\* the first start of the script, with no checkpoint file: the state when the
\* training loop is entered
Init ==
    /\ epochs \in 1..MaxEpochs
    /\ nbatches \in 1..MaxBatches
    /\ eval_step \in 1..MaxEvalStep
    /\ pc = "loop" /\ epoch = 0 /\ step = 0
    /\ start_epoch = 0 /\ epoch_step = -1
    /\ terminate = FALSE
    /\ model = 0 /\ lr = InitLr
    /\ best_acc = 0 /\ best_model = None
    /\ lr_controller = NewController
    /\ not_improved_epoch = 0
    /\ ckpt = <<>>
    /\ tested = -1
    /\ run = 1 /\ runStart = 0
    /\ optimized = <<>> /\ evaluated = <<>> /\ bestSeen = <<>> /\ optSinceCkpt = 0
    /\ added = <<>>
    /\ CorefIdle

\* one iteration of the inner loop that is not skipped: the optimizer step and,
\* every eval_step steps, validation, best-model update, controller update,
\* checkpoint write and the time-limit check
TrainStep ==
    /\ pc = "loop" /\ epoch < epochs /\ step < nbatches
    /\ ~terminate
    /\ ~SkipBatch(epoch, step)
    /\ LET isEval == ActualStep(epoch, step) % eval_step = 0
           m == model + 1
       IN  /\ model' = m
           /\ optimized' = Append(optimized, <<epoch, step>>)
           /\ \E curr_acc \in (IF isEval THEN AccLevels ELSE {0}) :
              \E timeUp \in (IF TimeChecked(isEval) THEN BOOLEAN ELSE {FALSE}) :
                LET newBest == curr_acc > best_acc
                    ba == IF newBest THEN curr_acc ELSE best_acc
                    bm == IF newBest THEN Live ELSE best_model
                    c  == AddValue(lr_controller, curr_acc)
                    n  == c.not_improved
                IN  /\ IF isEval
                       THEN /\ best_acc' = ba
                            /\ best_model' = bm
                            /\ lr_controller' = c
                            /\ not_improved_epoch' = n
                            /\ terminate' = NextTerminate(n, terminate)
                            /\ lr' = NextLr(n, lr)
                            /\ ckpt' = <<Checkpoint(m, bm, ba, NextLr(n, lr),
                                                    epoch, step, c)>>
                            /\ evaluated' = Append(evaluated, ActualStep(epoch, step))
                            /\ bestSeen' = NoteEval(bestSeen, curr_acc, m)
                            /\ optSinceCkpt' = 0
                       ELSE /\ UNCHANGED <<best_acc, best_model, lr_controller,
                                           not_improved_epoch, terminate, lr, ckpt,
                                           evaluated, bestSeen>>
                            /\ optSinceCkpt' = optSinceCkpt + 1
                    /\ IF timeUp
                       THEN pc' = "timeup" /\ step' = step
                       ELSE pc' = "loop" /\ step' = step + 1
    /\ UNCHANGED <<epochs, nbatches, eval_step, epoch, start_epoch, epoch_step,
                   tested, run, runStart, added, corefvars>>

\* an iteration skipped to recover the data loader position of the checkpoint
Skip ==
    /\ pc = "loop" /\ epoch < epochs /\ step < nbatches
    /\ ~terminate
    /\ SkipBatch(epoch, step)
    /\ step' = step + 1
    /\ UNCHANGED <<epochs, nbatches, eval_step, pc, epoch, start_epoch, epoch_step,
                   terminate, model, lr, best_acc, best_model, lr_controller,
                   not_improved_epoch, ckpt, tested, run, runStart, optimized,
                   evaluated, bestSeen, optSinceCkpt, added, corefvars>>

\* the inner loop is exhausted: the next epoch begins
NextEpoch ==
    /\ pc = "loop" /\ epoch < epochs /\ step = nbatches
    /\ ~terminate
    /\ epoch' = epoch + 1 /\ step' = 0
    /\ UNCHANGED <<epochs, nbatches, eval_step, pc, start_epoch, epoch_step,
                   terminate, model, lr, best_acc, best_model, lr_controller,
                   not_improved_epoch, ckpt, tested, run, runStart, optimized,
                   evaluated, bestSeen, optSinceCkpt, added, corefvars>>

\* `if terminate: break` in the inner and the outer loop
Break ==
    /\ pc = "loop" /\ epoch < epochs
    /\ terminate
    /\ pc' = "test"
    /\ UNCHANGED <<epochs, nbatches, eval_step, epoch, step, start_epoch, epoch_step,
                   terminate, model, lr, best_acc, best_model, lr_controller,
                   not_improved_epoch, ckpt, tested, run, runStart, optimized,
                   evaluated, bestSeen, optSinceCkpt, added, corefvars>>

\* range(args.epochs) is exhausted
LoopEnd ==
    /\ pc = "loop" /\ epoch = epochs
    /\ pc' = "test"
    /\ UNCHANGED <<epochs, nbatches, eval_step, epoch, step, start_epoch, epoch_step,
                   terminate, model, lr, best_acc, best_model, lr_controller,
                   not_improved_epoch, ckpt, tested, run, runStart, optimized,
                   evaluated, bestSeen, optSinceCkpt, added, corefvars>>

\* finished training, testing: the assertion, then load_state_dict(best_model)
\* (a copy of the live tensors onto themselves when best_model refers to them)
FinalTest ==
    /\ pc = "test"
    /\ IF best_model = None
       THEN /\ pc' = "assertfail"
            /\ UNCHANGED <<model, tested>>
       ELSE /\ model' = Weights(best_model, model)
            /\ tested' = Weights(best_model, model)
            /\ pc' = "done"
    /\ UNCHANGED <<epochs, nbatches, eval_step, epoch, step, start_epoch, epoch_step,
                   terminate, lr, best_acc, best_model, lr_controller,
                   not_improved_epoch, ckpt, run, runStart, optimized,
                   evaluated, bestSeen, optSinceCkpt, added, corefvars>>

\* the script is started again after a time-limit exit and loads the checkpoint;
\* the controller has not reached terminate_range: the training loop is entered
Resume ==
    /\ pc = "timeup" /\ run < MaxRuns
    /\ ckpt # <<>>
    /\ ckpt[1].lr_controller.not_improved < terminate_range
    /\ model' = ckpt[1].model
    /\ best_model' = IF ckpt[1].best_model = -1 THEN None ELSE Copy(ckpt[1].best_model)
    /\ best_acc' = ckpt[1].best_acc
    /\ lr' = ckpt[1].lr
    /\ lr_controller' = ckpt[1].lr_controller
    /\ start_epoch' = ckpt[1].epoch
    /\ epoch_step' = ckpt[1].step
    /\ terminate' = FALSE
    /\ epoch' = 0 /\ step' = 0
    /\ pc' = "loop"
    /\ run' = run + 1 /\ runStart' = Len(optimized)
    /\ UNCHANGED <<epochs, nbatches, eval_step, not_improved_epoch, ckpt, tested,
                   optimized, evaluated, bestSeen, optSinceCkpt, added, corefvars>>

\* the script is started again and the loaded controller has reached
\* terminate_range: no more optimization, testing and exiting
ResumeTerminated ==
    /\ pc = "timeup" /\ run < MaxRuns
    /\ ckpt # <<>>
    /\ ckpt[1].lr_controller.not_improved >= terminate_range
    /\ best_model' = IF ckpt[1].best_model = -1 THEN None ELSE Copy(ckpt[1].best_model)
    /\ best_acc' = ckpt[1].best_acc
    /\ lr' = ckpt[1].lr
    /\ lr_controller' = ckpt[1].lr_controller
    /\ start_epoch' = ckpt[1].epoch
    /\ epoch_step' = ckpt[1].step
    /\ terminate' = FALSE
    /\ epoch' = 0 /\ step' = 0
    /\ IF ckpt[1].best_model = -1
       THEN /\ pc' = "assertfail"
            /\ model' = ckpt[1].model
            /\ UNCHANGED tested
       ELSE /\ pc' = "done"
            /\ model' = ckpt[1].best_model
            /\ tested' = ckpt[1].best_model
    /\ run' = run + 1 /\ runStart' = Len(optimized)
    /\ UNCHANGED <<epochs, nbatches, eval_step, not_improved_epoch, ckpt,
                   optimized, evaluated, bestSeen, optSinceCkpt, added, corefvars>>

Next ==
    \/ TrainStep
    \/ Skip
    \/ NextEpoch
    \/ Break
    \/ LoopEnd
    \/ FinalTest
    \/ Resume
    \/ ResumeTerminated

Spec == Init /\ [][Next]_vars

----------------------------------------------------------------------------
\* LearningRateController on its own: any sequence of add_value calls

ConstclassIdle ==
    /\ epochs = 0 /\ nbatches = 0 /\ eval_step = 1
    /\ pc = "idle" /\ epoch = 0 /\ step = 0
    /\ start_epoch = 0 /\ epoch_step = -1
    /\ terminate = FALSE
    /\ model = 0 /\ lr = InitLr
    /\ best_acc = 0 /\ best_model = None
    /\ lr_controller = NewController
    /\ not_improved_epoch = 0
    /\ ckpt = <<>>
    /\ tested = -1
    /\ run = 1 /\ runStart = 0
    /\ optimized = <<>> /\ evaluated = <<>> /\ bestSeen = <<>> /\ optSinceCkpt = 0

ControllerInit ==
    /\ ConstclassIdle
    /\ added = <<>>
    /\ CorefIdle

\* not_improved_epoch = lr_controller.add_value(val)
CallAddValue ==
    /\ Len(added) < MaxAdds
    /\ \E val \in AccLevels :
        /\ lr_controller' = AddValue(lr_controller, val)
        /\ not_improved_epoch' = AddValue(lr_controller, val).not_improved
        /\ added' = Append(added, val)
    /\ UNCHANGED <<epochs, nbatches, eval_step, pc, epoch, step, start_epoch,
                   epoch_step, terminate, model, lr, best_acc, best_model, ckpt,
                   tested, run, runStart, optimized, evaluated, bestSeen,
                   optSinceCkpt, corefvars>>

ControllerNext == CallAddValue

ControllerSpec == ControllerInit /\ [][ControllerNext]_vars

----------------------------------------------------------------------------
\* coref: train.py

EVAL_STEPS == 1000

\* validation F1 levels: 0 is F1 0.0
F1Levels == 0..MaxF1

\* the record save_model writes (the tensors and the RNG state are left out);
\* the fifth argument of save_model is stored under 'max_f1'
SaveModel(sd, f) == [steps_done |-> sd, max_f1 |-> f]

\* faulty variant: an F1 equal to the best so far also rewrites the best checkpoint
IsNewMaxGeq(f1, mx) == f1 >= mx

\* `if f1 > max_f1`
IsNewMax(f1, mx) == f1 > mx

\* main() started with no checkpoint under best_model_dir: train is called
\* with init_steps = 0 and max_f1 = 0
CorefInit ==
    /\ ConstclassIdle
    /\ added = <<>>
    /\ train_len \in 1..MaxTrainLen
    /\ num_steps \in {k * EVAL_STEPS + r : k \in 0..MaxKiloSteps, r \in 0..MaxExtraSteps}
    /\ init_steps = 0 /\ steps_done = 0 /\ max_f1 = 0
    /\ c_pc = "while" /\ idx = 0
    /\ ckpt_model = <<>> /\ ckpt_best = <<>>
    /\ c_run = 1 /\ evalLog = <<>> /\ lastEval = 0 /\ highestF1 = 0
    /\ bestWritten = FALSE /\ logged_f1 = -1

\* `while (steps_done < num_steps)` holds: an epoch starts
EpochStart ==
    /\ c_pc = "while" /\ steps_done < num_steps
    /\ c_pc' = "for" /\ idx' = 0
    /\ UNCHANGED <<ccvars, added, train_len, num_steps, init_steps, steps_done,
                   max_f1, ckpt_model, ckpt_best, c_run, evalLog, lastEval,
                   highestF1, bestWritten, logged_f1>>

\* one iteration of `for idx, batch_data in enumerate(train_iter)`: the
\* optimizer step and, every EVAL_STEPS steps, evaluation and the checkpoints
CorefTrainStep ==
    /\ c_pc = "for" /\ idx < train_len
    /\ LET sd == steps_done + 1
           isEval == (sd % EVAL_STEPS) = 0
       IN  /\ steps_done' = sd
           /\ idx' = idx + 1
           /\ IF isEval
              THEN \E f1 \in F1Levels :
                    /\ max_f1' = IF IsNewMax(f1, max_f1) THEN f1 ELSE max_f1
                    /\ ckpt_best' = IF IsNewMax(f1, max_f1)
                                    THEN <<SaveModel(sd, f1)>> ELSE ckpt_best
                    /\ bestWritten' = (bestWritten \/ IsNewMax(f1, max_f1))
                    /\ ckpt_model' = <<SaveModel(sd, f1)>>
                    /\ evalLog' = Append(evalLog, [steps_done |-> sd, f1 |-> f1])
                    /\ lastEval' = sd
                    /\ highestF1' = IF f1 > highestF1 THEN f1 ELSE highestF1
              ELSE UNCHANGED <<max_f1, ckpt_best, bestWritten, ckpt_model, evalLog,
                               lastEval, highestF1>>
    /\ UNCHANGED <<ccvars, added, c_pc, train_len, num_steps, init_steps, c_run,
                   logged_f1>>

\* train_iter is exhausted: "Epoch done!", back to the while condition
EpochDone ==
    /\ c_pc = "for" /\ idx = train_len
    /\ c_pc' = "while"
    /\ UNCHANGED <<ccvars, added, train_len, num_steps, init_steps, steps_done, idx,
                   max_f1, ckpt_model, ckpt_best, c_run, evalLog, lastEval,
                   highestF1, bestWritten, logged_f1>>

\* the while condition fails: train returns
TrainReturn ==
    /\ c_pc = "while" /\ steps_done >= num_steps
    /\ c_pc' = "returned"
    /\ UNCHANGED <<ccvars, added, train_len, num_steps, init_steps, steps_done, idx,
                   max_f1, ckpt_model, ckpt_best, c_run, evalLog, lastEval,
                   highestF1, bestWritten, logged_f1>>

\* final_eval: logs the 'max_f1' of the checkpoint under best_model_dir, if any
FinalEval ==
    /\ c_pc = "returned"
    /\ c_pc' = "done"
    /\ logged_f1' = IF ckpt_best # <<>> THEN ckpt_best[1].max_f1 ELSE logged_f1
    /\ UNCHANGED <<ccvars, added, train_len, num_steps, init_steps, steps_done, idx,
                   max_f1, ckpt_model, ckpt_best, c_run, evalLog, lastEval,
                   highestF1, bestWritten>>

\* the script is started again (after it ended or was stopped): main loads
\* best_model_dir/model.pt when it exists and calls train
CorefRestart ==
    /\ c_pc \in {"while", "for", "returned", "done"}
    /\ c_run < MaxCorefRuns
    /\ c_run' = c_run + 1
    /\ steps_done' = IF ckpt_best # <<>> THEN ckpt_best[1].steps_done ELSE 0
    /\ init_steps' = IF ckpt_best # <<>> THEN ckpt_best[1].steps_done ELSE 0
    /\ max_f1' = IF ckpt_best # <<>> THEN ckpt_best[1].max_f1 ELSE 0
    /\ c_pc' = "while" /\ idx' = 0
    /\ evalLog' = <<>> /\ bestWritten' = FALSE /\ logged_f1' = -1
    /\ UNCHANGED <<ccvars, added, train_len, num_steps, ckpt_model, ckpt_best,
                   lastEval, highestF1>>

CorefNext ==
    \/ EpochStart
    \/ CorefTrainStep
    \/ EpochDone
    \/ TrainReturn
    \/ FinalEval
    \/ CorefRestart

CorefSpec == CorefInit /\ [][CorefNext]_vars

----------------------------------------------------------------------------
\* C1

SeqMax(s) == CHOOSE m \in {s[i] : i \in 1..Len(s)} : \A i \in 1..Len(s) : s[i] <= m

\* positions of the values strictly greater than every earlier value
Records(s) == {i \in 1..Len(s) : \A j \in 1..(i - 1) : s[j] < s[i]}

LastRecord(s) == CHOOSE i \in Records(s) : \A k \in Records(s) : k <= i

\* C1: after any non-empty sequence of add_value calls, best_performance is the
\* maximum of the values added, and not_improved, which is also the value the
\* last call returned, is the number of values added since the most recent
\* value strictly greater than every earlier one (the first value is such a
\* value; a value equal to the best is not)
C1_AddValue ==
    added # <<>> =>
        /\ lr_controller.best_performance = SeqMax(added)
        /\ lr_controller.not_improved = Len(added) - LastRecord(added)
        /\ not_improved_epoch = lr_controller.not_improved
        /\ (Len(added) = 1 => lr_controller.not_improved = 0)

\* an improvement, then a tie with the best and a lower value
C1_Witness ==
    /\ added = <<0, 1, 1, 0>>
    /\ lr_controller.not_improved = 2
    /\ not_improved_epoch = 2
    /\ lr_controller.best_performance = 1

----------------------------------------------------------------------------
\* C2

----------------------------------------------------------------------------
\* C3

\* C3: the weights loaded for the final test are those the model had at the
\* earliest evaluation with the highest validation accuracy
C3_TestsBestWeights ==
    pc = "done" => (bestSeen # <<>> /\ tested = bestSeen[1].w)

----------------------------------------------------------------------------
\* C4

\* C4: whenever control reaches the final test, or a checkpoint whose
\* controller reached terminate_range is resumed, best_model is not None: the
\* assertion never fails
C4_AssertionHolds == pc # "assertfail"

----------------------------------------------------------------------------
\* C5

LexAfter(b, e, s) == b[1] > e \/ (b[1] = e /\ b[2] > s)

\* C5: over an interrupted run and its restarts, the batches optimized are the
\* batches of an uninterrupted run, in order and each once; a restarted run
\* optimizes no batch up to the checkpoint's (epoch, step) and continues with
\* the next one; evaluations happen at the same actual_step values; and
\* training ends only with every batch optimized or the controller at
\* terminate_range
C5_ResumeSameBatches ==
    /\ \A k \in 1..Len(optimized) :
          optimized[k] = <<(k - 1) \div nbatches, (k - 1) % nbatches>>
    /\ Len(evaluated) = Len(optimized) \div eval_step
    /\ \A i \in 1..Len(evaluated) : evaluated[i] = i * eval_step
    /\ \A k \in (runStart + 1)..Len(optimized) :
          LexAfter(optimized[k], start_epoch, epoch_step)
    /\ (run > 1 => runStart = nbatches * start_epoch + epoch_step + 1)
    /\ (pc \in {"test", "done", "assertfail"} =>
          \/ Len(optimized) = epochs * nbatches
          \/ lr_controller.not_improved >= terminate_range)

\* a run interrupted in the middle of an epoch, restarted, and trained to the end
C5_Witness ==
    /\ run = 2 /\ pc = "done"
    /\ epoch_step >= 0 /\ epoch_step < nbatches - 1
    /\ runStart > 0 /\ Len(optimized) = epochs * nbatches
    /\ Len(optimized) > runStart + 1

----------------------------------------------------------------------------
\* C10

\* C10: when the script exits on the time limit, the checkpoint file was
\* written in the same iteration: it records the (epoch, step) of the last
\* optimizer step and the controller, best_acc and learning rate as they are
\* at exit, and no optimizer step came after the write
C10_TimeLimitExit ==
    pc = "timeup" =>
        /\ ckpt # <<>>
        /\ optimized # <<>>
        /\ <<ckpt[1].epoch, ckpt[1].step>> = optimized[Len(optimized)]
        /\ ckpt[1].lr_controller = lr_controller
        /\ ckpt[1].best_acc = best_acc
        /\ ckpt[1].lr = lr
        /\ ckpt[1].model = model
        /\ optSinceCkpt = 0

\* a time-limit exit at an evaluation that halved the learning rate
C10_Witness ==
    /\ pc = "timeup"
    /\ not_improved_epoch = 5
    /\ lr * 2 = InitLr
    /\ best_acc > 0

----------------------------------------------------------------------------
\* C6

\* train has just been called by a restarted main
JustResumed == c_run > 1 /\ c_pc = "while" /\ evalLog = <<>> /\ steps_done = init_steps

\* C6: a restarted coref script, when earlier runs wrote both checkpoint
\* files, resumes from the most recently saved checkpoint: the restored
\* steps_done is the step count of the last evaluation an earlier run completed
C6_ResumesFromLatest ==
    (JustResumed /\ ckpt_model # <<>> /\ ckpt_best # <<>>) =>
        /\ steps_done = lastEval
        /\ steps_done = ckpt_model[1].steps_done

----------------------------------------------------------------------------
\* C7

\* C7: in the records under model_dir and best_model_dir, 'max_f1' is the
\* highest validation F1 observed so far and 'steps_done' is the number of
\* optimizer steps done when the record was written
C7_RecordFields ==
    /\ (ckpt_model # <<>> =>
            /\ ckpt_model[1].max_f1 = highestF1
            /\ ckpt_model[1].steps_done = lastEval)
    /\ (ckpt_best # <<>> =>
            /\ ckpt_best[1].max_f1 = highestF1
            /\ ckpt_best[1].steps_done <= lastEval)

----------------------------------------------------------------------------
\* C8

Max2(a, b) == IF a >= b THEN a ELSE b

\* C8: train performs no optimizer step once steps_done has reached
\* num_steps, and returns with steps_done = max(init_steps, num_steps)
C8_StopsAtNumSteps ==
    c_pc \in {"returned", "done"} => steps_done = Max2(init_steps, num_steps)

----------------------------------------------------------------------------
\* C9

\* the earliest evaluation of the current train call with the highest F1
EarliestBest(log) ==
    CHOOSE i \in 1..Len(log) :
        /\ \A j \in 1..Len(log) : log[j].f1 <= log[i].f1
        /\ \A j \in 1..(i - 1) : log[j].f1 < log[i].f1

\* C9: max_f1 never decreases; the checkpoint under best_model_dir is
\* rewritten exactly at the evaluations whose F1 is strictly greater than
\* max_f1, so once written in this run it holds the steps_done and F1 of the
\* earliest evaluation with the highest F1 so far; the checkpoint under
\* model_dir is rewritten at every evaluation
C9_BestTracking ==
    /\ [](bestWritten =>
            /\ evalLog # <<>>
            /\ ckpt_best = <<SaveModel(evalLog[EarliestBest(evalLog)].steps_done,
                                       evalLog[EarliestBest(evalLog)].f1)>>
            /\ max_f1 = evalLog[EarliestBest(evalLog)].f1)
    /\ [](evalLog # <<>> =>
            /\ ckpt_model # <<>>
            /\ ckpt_model[1].steps_done = evalLog[Len(evalLog)].steps_done)
    /\ [][ /\ max_f1' >= max_f1
           /\ (ckpt_best' # ckpt_best <=>
                 /\ Len(evalLog') > Len(evalLog)
                 /\ evalLog'[Len(evalLog')].f1 > max_f1)
           /\ (Len(evalLog') > Len(evalLog) =>
                 /\ ckpt_model' # <<>>
                 /\ ckpt_model'[1].steps_done = steps_done'
                 /\ ckpt_model'[1].steps_done = evalLog'[Len(evalLog')].steps_done)
         ]_vars

\* a second evaluation that ties with the first: the best checkpoint keeps the
\* first, the latest checkpoint holds the second
C9_Witness ==
    /\ Len(evalLog) = 2
    /\ evalLog[1].f1 = 1 /\ evalLog[2].f1 = 1
    /\ bestWritten
    /\ ckpt_best # <<>> /\ ckpt_best[1].steps_done = 1000
    /\ ckpt_model # <<>> /\ ckpt_model[1].steps_done = 2000

----------------------------------------------------------------------------
\* C11

\* the current run was started with a checkpoint whose controller had reached
\* terminate_range (terminate is only set by an evaluation of the same run)
StartedTerminated ==
    /\ run > 1
    /\ ckpt # <<>>
    /\ ckpt[1].lr_controller.not_improved >= terminate_range
    /\ ~terminate

\* the checkpoint is written at the evaluation that sets terminate
TerminateIsCheckpointed ==
    terminate =>
        /\ ckpt # <<>>
        /\ optimized # <<>>
        /\ ckpt[1].lr_controller = lr_controller
        /\ ckpt[1].lr_controller.not_improved >= terminate_range
        /\ <<ckpt[1].epoch, ckpt[1].step>> = optimized[Len(optimized)]

\* a run started with a terminated checkpoint does no optimizer step and no
\* validation
StartedTerminatedIsIdle ==
    StartedTerminated =>
        /\ Len(optimized) = runStart
        /\ Len(evaluated) = runStart \div eval_step
        /\ pc \in {"done", "assertfail"}

\* a run started with any other checkpoint enters the training loop
StartedOtherwiseTrains ==
    (run > 1 /\ ~StartedTerminated /\ epoch = 0 /\ step = 0) => pc = "loop"

\* C11: a checkpoint is written at the evaluation that sets terminate; a run
\* started with a checkpoint whose not_improved >= terminate_range does no
\* optimizer step and no validation, runs the test evaluation with the
\* checkpoint's best_model and exits; a run started with not_improved <
\* terminate_range enters the training loop
C11_ResumeAfterEarlyStop ==
    /\ TerminateIsCheckpointed
    /\ StartedTerminatedIsIdle
    /\ (StartedTerminated => pc = "done" /\ tested = ckpt[1].best_model)
    /\ StartedOtherwiseTrains

====
